---- MODULE Spec2Model ----
(***************************************************************************)
(* rcss: a build-time CSS bundler (src/src/main.rs).                       *)
(*                                                                         *)
(* Text is modelled as a sequence of one-character strings, so that the    *)
(* regex rules of minify, the suffix test and the substring test of        *)
(* minify_files are computed character by character.                       *)
(***************************************************************************)
EXTENDS Naturals, Sequences, FiniteSets, TLC

VARIABLES
    \* ---- minify, one file's text going through the rule list
    input,            \* the text read_to_string put into string_buffer
    string_buffer,    \* minify's string_buffer
    rule,             \* number of patterns of patterns_and_replacement applied
    \* ---- minify_files, one run of the program
    pc,                               \* position of the run in minify_files
    destination_folder_path,          \* argument of minify_files
    destination_file_name,            \* argument of minify_files
    extension,                        \* argument of minify_files
    tree,                             \* the root folder's listing (nested)
    disk,                             \* resolved path -> file content
    disk0,                            \* disk as it was when the run started
    faults,                           \* the I/O operations that have failed
    files_to_minify,                  \* result of recurse_files
    files_without_destination_file,   \* the selected files
    next_file,                        \* index of the next selected file to read
    minified_file_content             \* the Bundle collected so far

minify_vars == <<input, string_buffer, rule>>

run_vars == <<pc, destination_folder_path, destination_file_name, extension,
              tree, disk, disk0, faults, files_to_minify,
              files_without_destination_file, next_file,
              minified_file_content>>

vars == <<input, string_buffer, rule, pc, destination_folder_path,
          destination_file_name, extension, tree, disk, disk0, faults,
          files_to_minify, files_without_destination_file, next_file,
          minified_file_content>>

(***************************************************************************)
(* Bounds of the model.                                                    *)
(***************************************************************************)
MaxTokens == 4      \* tokens in a free input text of minify
MaxBody == 1        \* tokens in the body of a comment of a commented text
MaxText == 2        \* tokens between the two comments of a commented text

(***************************************************************************)
(* Characters and strings.                                                 *)
(***************************************************************************)
\* regex \s, restricted to the whitespace characters the inputs use
IsSpace(c) == c \in {" ", "\t", "\n"}

\* the character class [,:;\{\}>]
IsPunct(c) == c \in {",", ":", ";", "{", "}", ">"}

\* s has p as a substring starting at index i
MatchesAt(s, i, p) ==
    /\ i >= 1
    /\ i + Len(p) - 1 <= Len(s)
    /\ SubSeq(s, i, i + Len(p) - 1) = p

\* str::ends_with
EndsWith(s, p) == Len(p) <= Len(s) /\ SubSeq(s, Len(s) - Len(p) + 1, Len(s)) = p

\* str::contains
Contains(s, p) == \E i \in 1..(Len(s) + 1) : MatchesAt(s, i, p)

RECURSIVE Flatten(_)
\* concatenation of a sequence of strings (collect::<String>())
Flatten(ss) == IF ss = <<>> THEN <<>> ELSE Head(ss) \o Flatten(Tail(ss))

\* all sequences over S of length at most n
SeqsUpTo(S, n) == UNION {[1..k -> S] : k \in 0..n}

(***************************************************************************)
(* minify: the six (pattern, replacement) pairs, each applied with         *)
(* Regex::replace_all: leftmost matches, left to right, not overlapping.   *)
(***************************************************************************)
RECURSIVE SkipSpace(_, _)
\* the first index >= i of s that holds no whitespace (Len(s) + 1 if none)
SkipSpace(s, i) ==
    IF i <= Len(s) /\ IsSpace(s[i]) THEN SkipSpace(s, i + 1) ELSE i

RECURSIVE CollapseSpace(_, _)
\* (r"\s+", " ") from index i on
CollapseSpace(s, i) ==
    IF i > Len(s) THEN <<>>
    ELSE IF IsSpace(s[i]) THEN <<" ">> \o CollapseSpace(s, SkipSpace(s, i))
    ELSE <<s[i]>> \o CollapseSpace(s, i + 1)

RECURSIVE ReplaceLiteral(_, _, _, _)
\* (pat, rep) for a pattern without metacharacters, from index i on
ReplaceLiteral(s, i, pat, rep) ==
    IF i > Len(s) THEN <<>>
    ELSE IF MatchesAt(s, i, pat)
         THEN rep \o ReplaceLiteral(s, i + Len(pat), pat, rep)
         ELSE <<s[i]>> \o ReplaceLiteral(s, i + 1, pat, rep)

RECURSIVE TrimAfter(_, _)
\* (r"([,:;\{\}>])\s", "${1}") from index i on
TrimAfter(s, i) ==
    IF i > Len(s) THEN <<>>
    ELSE IF IsPunct(s[i]) /\ i + 1 <= Len(s) /\ IsSpace(s[i + 1])
         THEN <<s[i]>> \o TrimAfter(s, i + 2)
         ELSE <<s[i]>> \o TrimAfter(s, i + 1)

RECURSIVE TrimBefore(_, _)
\* (r"\s([,:;\{\}>])", "${1}") from index i on
TrimBefore(s, i) ==
    IF i > Len(s) THEN <<>>
    ELSE IF IsSpace(s[i]) /\ i + 1 <= Len(s) /\ IsPunct(s[i + 1])
         THEN <<s[i + 1]>> \o TrimBefore(s, i + 2)
         ELSE <<s[i]>> \o TrimBefore(s, i + 1)

RECURSIVE CommentEndGreedy(_, _)
\* a greedy .* in place of the lazy .*?: the last "*/" the match can reach
CommentEndGreedy(s, j) ==
    IF j + 1 > Len(s) THEN 0
    ELSE IF s[j] = "\n" THEN 0
    ELSE LET later == CommentEndGreedy(s, j + 1)
         IN  IF later # 0 THEN later
             ELSE IF MatchesAt(s, j, <<"*", "/">>) THEN j
             ELSE 0

RECURSIVE CommentEnd(_, _)
\* for a "/*" whose body starts at j: the index of the nearest "*/" at or
\* after j that the lazy .*? reaches ("." matches no line feed), 0 if none
CommentEnd(s, j) ==
    IF j + 1 > Len(s) THEN 0
    ELSE IF MatchesAt(s, j, <<"*", "/">>) THEN j
    ELSE IF s[j] = "\n" THEN 0
    ELSE CommentEnd(s, j + 1)

RECURSIVE StripComments(_, _)
\* (r"/\*.*?\*/", "") from index i on
StripComments(s, i) ==
    IF i > Len(s) THEN <<>>
    ELSE IF MatchesAt(s, i, <<"/", "*">>) /\ CommentEnd(s, i + 2) # 0
         THEN StripComments(s, CommentEnd(s, i + 2) + 2)
         ELSE <<s[i]>> \o StripComments(s, i + 1)

\* the number of entries of patterns_and_replacement
NumPatterns == 6

\* pattern.0.replace_all(&string_buffer, pattern.1) for the k-th pattern
ReplaceAll(k, s) ==
    CASE k = 1 -> CollapseSpace(s, 1)
      [] k = 2 -> ReplaceLiteral(s, 1, <<";", " ", "}">>, <<"}">>)
      [] k = 3 -> TrimAfter(s, 1)
      [] k = 4 -> TrimBefore(s, 1)
      [] k = 5 -> ReplaceLiteral(s, 1, <<"0", " ", "0", " ", "0", " ", "0">>, <<"0">>)
      [] k = 6 -> StripComments(s, 1)

RECURSIVE ApplyPatternsButLast(_, _, _)
\* the loop stopping one pattern early
ApplyPatternsButLast(s, k, last) ==
    IF k >= last THEN s ELSE ApplyPatternsButLast(ReplaceAll(k, s), k + 1, last)

RECURSIVE ApplyPatterns(_, _, _)
\* the loop over patterns_and_replacement, from pattern k to pattern last
ApplyPatterns(s, k, last) ==
    IF k > last THEN s ELSE ApplyPatterns(ReplaceAll(k, s), k + 1, last)

\* minify on a file whose content s was read in full
Minify(s) == ApplyPatterns(s, 1, NumPatterns)

(***************************************************************************)
(* Input texts of minify.                                                  *)
(***************************************************************************)
Zeros4 == <<"0", " ", "0", " ", "0", " ", "0">>

FreeTokens == {<<" ">>, <<";">>, <<"}">>, <<"a">>, <<"/", "*">>, <<"*", "/">>,
               <<"0", " ">>, Zeros4, <<"1">>}

BodyTokens == {<<" ">>, <<"\n">>, <<"*">>}

TextTokens == {<<" ">>, <<"\n">>, <<"a">>, <<":">>, <<"/">>, <<"*", "/">>}

FreeTexts == {Flatten(ts) : ts \in SeqsUpTo(FreeTokens, MaxTokens)}

Comment(body) == <<"/", "*">> \o body \o <<"*", "/">>

\* texts of the form /* a */ text /* b */
CommentedTexts ==
    {Comment(Flatten(a)) \o Flatten(t) \o Comment(Flatten(b)) :
        a \in SeqsUpTo(BodyTokens, MaxBody),
        t \in SeqsUpTo(TextTokens, MaxText),
        b \in SeqsUpTo(BodyTokens, MaxBody)}

InitMinify ==
    /\ input \in FreeTexts \cup CommentedTexts
    /\ string_buffer = input
    /\ rule = 0
    /\ pc = "minify"
    /\ destination_folder_path = <<>>
    /\ destination_file_name = <<>>
    /\ extension = <<>>
    /\ tree = <<>>
    /\ disk = <<>>
    /\ disk0 = <<>>
    /\ faults = {}
    /\ files_to_minify = <<>>
    /\ files_without_destination_file = <<>>
    /\ next_file = 1
    /\ minified_file_content = <<>>

\* one turn of the loop of minify: the next pattern rewrites string_buffer
ApplyRule ==
    /\ pc = "minify"
    /\ rule < NumPatterns
    /\ rule' = rule + 1
    /\ string_buffer' = ReplaceAll(rule + 1, string_buffer)
    /\ UNCHANGED <<input>>
    /\ UNCHANGED run_vars

NextMinify == ApplyRule

SpecMinify == InitMinify /\ [][NextMinify]_vars

(***************************************************************************)
(* The file system of a run: paths, the directory tree, recurse_files.     *)
(***************************************************************************)
MaxRoot == 3        \* entries of the root folder
MaxSub == 1         \* entries of a subfolder
MaxFaults == 1      \* I/O operations that fail in one run

\* PathBuf::join as DirEntry::path uses it: a separator is added unless the
\* directory's path already ends with one
JoinPath(dir, name) ==
    IF dir # <<>> /\ dir[Len(dir)] # "/" THEN dir \o <<"/">> \o name
    ELSE dir \o name

RECURSIVE Canon(_)
\* the file a path string resolves to when the system opens it: a run of
\* separators counts as one separator
Canon(path) ==
    IF Len(path) < 2 THEN path
    ELSE IF path[1] = "/" /\ path[2] = "/" THEN Canon(Tail(path))
    ELSE <<path[1]>> \o Canon(Tail(path))

\* format!("{destination_folder_path}/{destination_file_name}")
DestinationFilePath(folder, name) == folder \o <<"/">> \o name

destination_file_path ==
    DestinationFilePath(destination_folder_path, destination_file_name)

\* a failed I/O operation
Fault(op, path) == [op |-> op, path |-> path]

\* std::io::Result<Vec<String>>
Ok(files) == [ok |-> TRUE, files |-> files]
Err == [ok |-> FALSE, files |-> <<>>]

RECURSIVE WalkEntries(_, _, _, _, _)
RECURSIVE RecurseFilesPushAll(_, _, _)
RECURSIVE RecurseFiles(_, _, _)

\* a recurse_files that pushes every entry's path, directories included
RecurseFilesPushAll(user_path, entries, failing) ==
    IF Fault("read_dir", user_path) \in failing THEN Err
    ELSE LET r == WalkEntries(user_path, entries, 1, <<>>, failing)
         IN  IF r.ok
             THEN Ok(r.files \o [k \in 1..Len(entries) |->
                                    JoinPath(user_path, entries[k].name)])
             ELSE Err

\* the for loop of recurse_files over the entries of user_path from the
\* k-th on, buf holding what was collected so far
WalkEntries(user_path, entries, k, buf, failing) ==
    IF k > Len(entries) THEN Ok(buf)
    ELSE LET entry == entries[k]
             path == JoinPath(user_path, entry.name)
         IN  IF Fault("entry", path) \in failing THEN Err
             ELSE IF Fault("metadata", path) \in failing THEN Err
             ELSE IF entry.kind = "dir"
                  THEN LET subdir == RecurseFiles(path, entry.entries, failing)
                       IN  IF subdir.ok
                           THEN WalkEntries(user_path, entries, k + 1,
                                            buf \o subdir.files, failing)
                           ELSE Err
             ELSE IF entry.kind = "file"
                  THEN WalkEntries(user_path, entries, k + 1,
                                   buf \o <<path>>, failing)
             ELSE WalkEntries(user_path, entries, k + 1, buf, failing)

\* recurse_files(user_path) on a directory with the given listing, when the
\* operations of `failing` fail
RecurseFiles(user_path, entries, failing) ==
    IF Fault("read_dir", user_path) \in failing THEN Err
    ELSE WalkEntries(user_path, entries, 1, <<>>, failing)

RECURSIVE TraversalFaults(_, _)
\* the operations recurse_files performs on a tree, each of which may fail
TraversalFaults(dir, entries) ==
    {Fault("read_dir", dir)}
    \cup {Fault(op, JoinPath(dir, entries[k].name)) :
            op \in {"entry", "metadata"}, k \in 1..Len(entries)}
    \cup UNION {IF entries[k].kind = "dir"
                THEN TraversalFaults(JoinPath(dir, entries[k].name),
                                     entries[k].entries)
                ELSE {} : k \in 1..Len(entries)}

RECURSIVE RegularFiles(_, _)
\* the regular files under a directory, each with its path and content
RegularFiles(dir, entries) ==
    UNION {IF entries[k].kind = "file"
           THEN {[path |-> JoinPath(dir, entries[k].name),
                  content |-> entries[k].content]}
           ELSE IF entries[k].kind = "dir"
           THEN RegularFiles(JoinPath(dir, entries[k].name), entries[k].entries)
           ELSE {} : k \in 1..Len(entries)}

RECURSIVE Directories(_, _)
\* the paths of the directories under a directory
Directories(dir, entries) ==
    UNION {IF entries[k].kind = "dir"
           THEN {JoinPath(dir, entries[k].name)}
                \cup Directories(JoinPath(dir, entries[k].name), entries[k].entries)
           ELSE {} : k \in 1..Len(entries)}

\* the content of every regular file of the tree, by the file it resolves to
DiskOf(dir, entries) ==
    LET files == RegularFiles(dir, entries)
    IN  [q \in {Canon(f.path) : f \in files} |->
            (CHOOSE f \in files : Canon(f.path) = q).content]

(***************************************************************************)
(* The inputs of a run: arguments, directory trees, file contents.         *)
(***************************************************************************)
TextA == <<"b", "o", "d", "y", " ", "{", " ", "c", "o", "l", "o", "r", ":",
           " ", "r", "e", "d", ";", " ", "}">>

TextB == <<"/", "*", " ", "h", "e", "a", "d", "e", "r", " ", "*", "/", " ",
           ".", "h", "1", " ", "{", " ", "m", "a", "r", "g", "i", "n", ":",
           " ", "0", " ", "0", " ", "0", " ", "0", ";", " ", "}">>

NameA == <<"a", ".", "c", "s", "s">>
NameB == <<"b", ".", "c", "s", "s">>
NameStyle == <<"s", "t", "y", "l", "e", ".", "c", "s", "s">>
NameN == <<"n", ".", "c", "s">>
NameCss == <<"c", "s", "s">>
NameLink == <<"l", "n">>

File(name, content) ==
    [name |-> name, kind |-> "file", content |-> content, entries |-> <<>>]

Dir(name, entries) ==
    [name |-> name, kind |-> "dir", content |-> <<>>, entries |-> entries]

Symlink(name) ==
    [name |-> name, kind |-> "symlink", content |-> <<>>, entries |-> <<>>]

\* listings: sequences of entries with different names
Listings(entries, n) ==
    {l \in SeqsUpTo(entries, n) :
        \A i \in 1..Len(l) : \A j \in 1..Len(l) :
            l[i].name = l[j].name => i = j}

SubEntries == {File(NameA, <<"p", " ", ">", " ", "q">>),
               File(NameStyle, <<"s", ";", " ", "}">>)}

RootEntries ==
    {File(NameA, <<"a", " ", "{", "}">>),
     File(NameStyle, <<"o", " ", ";">>),
     File(NameN, <<"n", ",", " ", "m">>),
     Symlink(NameLink)}
    \cup {Dir(NameCss, l) : l \in Listings(SubEntries, MaxSub)}

\* the files of the end-to-end scenario of the specification
ScenarioEntries ==
    {File(NameA, TextA), File(NameB, TextB), File(NameStyle, <<"o", " ", ";">>)}

Folders == {<<"c", "s", "s">>, <<"c", "s", "s", "/">>}

DestinationNames == {NameStyle, NameA}

Extensions == {<<"c", "s", "s">>, <<"c", "s">>}

Init ==
    /\ input = <<>>
    /\ string_buffer = <<>>
    /\ rule = 0
    /\ pc = "start"
    /\ destination_folder_path \in Folders
    /\ destination_file_name \in DestinationNames
    /\ extension \in Extensions
    /\ tree \in Listings(RootEntries, MaxRoot)
    /\ disk = DiskOf(destination_folder_path, tree)
    /\ disk0 = disk
    /\ faults = {}
    /\ files_to_minify = <<>>
    /\ files_without_destination_file = <<>>
    /\ next_file = 1
    /\ minified_file_content = <<>>

\* the runs of the end-to-end scenario: a.css and b.css in the root folder
InitScenario ==
    /\ input = <<>>
    /\ string_buffer = <<>>
    /\ rule = 0
    /\ pc = "start"
    /\ destination_folder_path \in Folders
    /\ destination_file_name \in DestinationNames
    /\ extension \in Extensions
    /\ tree \in Listings(ScenarioEntries, MaxRoot)
    /\ disk = DiskOf(destination_folder_path, tree)
    /\ disk0 = disk
    /\ faults = {}
    /\ files_to_minify = <<>>
    /\ files_without_destination_file = <<>>
    /\ next_file = 1
    /\ minified_file_content = <<>>

(***************************************************************************)
(* minify_files, statement by statement.                                   *)
(***************************************************************************)
\* one more I/O operation may fail in this run
CanFail == Cardinality(faults) < MaxFaults

\* the filter closure without the test of the destination
IsSelectedBySuffix(file, ext, destination) == EndsWith(file, ext)

\* the filter closure of minify_files
IsSelected(file, ext, destination) ==
    EndsWith(file, ext) /\ ~Contains(file, destination)

\* a file opened for writing without truncate(true) keeps its content
OpenedWithoutTruncate(old) == old

\* the content of a file just opened with write(true).truncate(true)
OpenedForWrite(old) == <<>>

\* the content of a file of content old after data is written at its start
WrittenOver(old, data) == data \o SubSeq(old, Len(data) + 1, Len(old))

\* let files_to_minify = recurse_files(destination_folder_path)
\*     .unwrap_or_else(|_| panic!(..))
Traverse ==
    /\ pc = "start"
    /\ \E failing \in {{}} \cup {{f} : f \in
                    IF CanFail THEN TraversalFaults(destination_folder_path, tree)
                    ELSE {}} :
        LET r == RecurseFiles(destination_folder_path, tree, failing)
        IN  /\ faults' = faults \cup failing
            /\ IF r.ok
               THEN /\ files_to_minify' = r.files
                    /\ pc' = "open_destination"
               ELSE /\ pc' = "panicked"
                    /\ UNCHANGED files_to_minify
    /\ UNCHANGED <<destination_folder_path, destination_file_name, extension,
                   tree, disk, disk0, files_without_destination_file,
                   next_file, minified_file_content>>
    /\ UNCHANGED minify_vars

\* fs::OpenOptions::new().create(true).write(true).truncate(true)
\*     .open(destination_file_path).unwrap_or_else(|_| panic!(..))
OpenDestination ==
    /\ pc = "open_destination"
    /\ \/ /\ CanFail
          /\ faults' = faults \cup {Fault("open", destination_file_path)}
          /\ pc' = "panicked"
          /\ UNCHANGED disk
       \/ /\ LET file == Canon(destination_file_path)
                 old == IF file \in DOMAIN disk THEN disk[file] ELSE <<>>
             IN  disk' = [q \in DOMAIN disk \cup {file} |->
                            IF q = file THEN OpenedForWrite(old) ELSE disk[q]]
          /\ pc' = "filter"
          /\ UNCHANGED faults
    /\ UNCHANGED <<destination_folder_path, destination_file_name, extension,
                   tree, disk0, files_to_minify,
                   files_without_destination_file, next_file,
                   minified_file_content>>
    /\ UNCHANGED minify_vars

\* files_to_minify.iter().filter(..).collect::<Vec<_>>()
Filter ==
    /\ pc = "filter"
    /\ files_without_destination_file' =
          SelectSeq(files_to_minify,
                    LAMBDA file : IsSelected(file, extension, destination_file_path))
    /\ next_file' = 1
    /\ pc' = "read"
    /\ UNCHANGED <<destination_folder_path, destination_file_name, extension,
                   tree, disk, disk0, faults, files_to_minify,
                   minified_file_content>>
    /\ UNCHANGED minify_vars

\* one turn of the map over files_without_destination_file:
\* open(file_path).map(|mut file| minify(&mut file)).unwrap()
ReadFile ==
    /\ pc = "read"
    /\ next_file <= Len(files_without_destination_file)
    /\ LET file_path == files_without_destination_file[next_file]
           content == disk[Canon(file_path)]
       IN  \/ /\ CanFail
              /\ faults' = faults \cup {Fault("open", file_path)}
              /\ pc' = "panicked"
              /\ UNCHANGED <<next_file, minified_file_content>>
           \/ /\ minified_file_content' =
                    minified_file_content \o Minify(content)
              /\ next_file' = next_file + 1
              /\ UNCHANGED <<pc, faults>>
           \/ /\ CanFail
              \* let _ = file.read_to_string(&mut string_buffer): the error is
              \* dropped and what was read before it is minified
              /\ \E n \in 0..Len(content) :
                    minified_file_content' =
                        minified_file_content \o Minify(SubSeq(content, 1, n))
              /\ faults' = faults \cup {Fault("read", file_path)}
              /\ next_file' = next_file + 1
              /\ UNCHANGED pc
    /\ UNCHANGED <<destination_folder_path, destination_file_name, extension,
                   tree, disk, disk0, files_to_minify,
                   files_without_destination_file>>
    /\ UNCHANGED minify_vars

\* let _ = destination_file.write_all(minified_file_content.as_bytes())
WriteDestination ==
    /\ pc = "read"
    /\ next_file > Len(files_without_destination_file)
    /\ LET file == Canon(destination_file_path)
       IN  \/ /\ disk' = [disk EXCEPT
                            ![file] = WrittenOver(@, minified_file_content)]
              /\ UNCHANGED faults
           \/ /\ CanFail
              /\ minified_file_content # <<>>
              \* the error is dropped; a part of the Bundle was written
              /\ \E n \in 0..(Len(minified_file_content) - 1) :
                    disk' = [disk EXCEPT
                        ![file] = WrittenOver(@, SubSeq(minified_file_content, 1, n))]
              /\ faults' = faults \cup {Fault("write", destination_file_path)}
    /\ pc' = "done"
    /\ UNCHANGED <<destination_folder_path, destination_file_name, extension,
                   tree, disk0, files_to_minify,
                   files_without_destination_file, next_file,
                   minified_file_content>>
    /\ UNCHANGED minify_vars

Next ==
    \/ Traverse
    \/ OpenDestination
    \/ Filter
    \/ ReadFile
    \/ WriteDestination

Spec == Init /\ [][Next]_vars

SpecScenario == InitScenario /\ [][Next]_vars

(***************************************************************************)
(* Claims about minify, checked under SpecMinify.                          *)
(***************************************************************************)
\* the loop of minify has applied every pattern to string_buffer
MinifyDone == pc = "minify" /\ rule = NumPatterns

\* C3: the rule pipeline is idempotent: for every input text, applying the
\* six rules to the output of one pass gives back the same text.
C3_PipelineIdempotent ==
    MinifyDone => Minify(string_buffer) = string_buffer

\* c is one comment: "/*", a body that holds no "*/", "*/"
IsComment(c) ==
    /\ Len(c) >= 4
    /\ MatchesAt(c, 1, <<"/", "*">>)
    /\ MatchesAt(c, Len(c) - 1, <<"*", "/">>)
    /\ ~Contains(SubSeq(c, 3, Len(c) - 2), <<"*", "/">>)

\* the input is  comment text comment, the text being input[i+1 .. j-1]
\* and holding no "/*"
IsCommentTextComment(i, j) ==
    /\ i < j
    /\ IsComment(SubSeq(input, 1, i))
    /\ IsComment(SubSeq(input, j, Len(input)))
    /\ ~Contains(SubSeq(input, i + 1, j - 1), <<"/", "*">>)

\* C9: comment removal is not greedy: of an input /* a */ text /* b */ the
\* pipeline removes the two comments, each on its own, and keeps the text
\* between them (as rules 1 to 5 rewrite it), also when a comment held line
\* breaks in the input.
C9_CommentsRemovedIndependently ==
    \A i \in 1..Len(input) : \A j \in 1..Len(input) :
        (MinifyDone /\ IsCommentTextComment(i, j))
            => string_buffer = ApplyPatterns(SubSeq(input, i + 1, j - 1), 1, 5)

\* a comment with a line break, text, a comment: both comments are gone and
\* the text is kept
C9_Witness ==
    /\ MinifyDone
    /\ input = Comment(<<"\n">>) \o <<" ", "a">> \o Comment(<<" ">>)
    /\ IsCommentTextComment(5, 8)
    /\ string_buffer = <<" ", "a">>

\* s is a list of numbers separated by single spaces
IsValueList(s) ==
    /\ Len(s) >= 1
    /\ \A k \in 1..Len(s) : s[k] \in {"0", "1", " "}
    /\ s[1] # " " /\ s[Len(s)] # " "
    /\ \A k \in 1..(Len(s) - 1) : ~(s[k] = " " /\ s[k + 1] = " ")

\* C10: rule 5 collapses only an all-zero shorthand value list: a value list
\* other than the four values 0 0 0 0 comes out of the pipeline with the
\* values it had.
C10_ZeroCollapseOnlyWholeList ==
    (MinifyDone /\ IsValueList(input) /\ input # Zeros4)
        => string_buffer = input

(***************************************************************************)
(* Claims about minify_files and recurse_files, checked under Spec         *)
(* (C2 under SpecScenario).                                                *)
(***************************************************************************)
\* the files a sequence of paths holds
Range(seq) == {seq[k] : k \in 1..Len(seq)}

\* the filter of minify_files has run
Filtered == pc \in {"read", "done"}

\* C1: the files selected for bundling never hold the destination file
\* itself, whatever the spelling of the folder argument.
C1_DestinationNeverSelected ==
    \A k \in 1..Len(files_without_destination_file) :
        Canon(files_without_destination_file[k]) # Canon(destination_file_path)

\* what a selected file holds when the run reads it: the destination was
\* truncated before the reads
ContentAtRead(file) ==
    IF Canon(file) = Canon(destination_file_path) THEN <<>>
    ELSE disk0[Canon(file)]

\* the end-to-end scenario: a run without failure that selected a.css =
\* "body { color: red; }" and b.css = "/* header */ .h1 { margin: 0 0 0 0; }"
\* in this order, these being the contents the run reads
ScenarioDone ==
    /\ pc = "done"
    /\ faults = {}
    /\ files_without_destination_file =
            <<JoinPath(destination_folder_path, NameA),
              JoinPath(destination_folder_path, NameB)>>
    /\ ContentAtRead(JoinPath(destination_folder_path, NameA)) = TextA
    /\ ContentAtRead(JoinPath(destination_folder_path, NameB)) = TextB

\* C2 as stated: in the end-to-end scenario the Bundle written to the
\* destination is exactly "body{color:red}.h1{margin:0}".
C2_EndToEndBundle ==
    ScenarioDone =>
        disk[Canon(destination_file_path)] =
          <<"b", "o", "d", "y", "{", "c", "o", "l", "o", "r", ":", "r", "e",
            "d", "}", ".", "h", "1", "{", "m", "a", "r", "g", "i", "n", ":",
            "0", "}">>

\* C2 as amended: in the end-to-end scenario the Bundle written to the
\* destination is exactly "body{color:red} .h1{margin:0}": the space that
\* followed the comment of b.css is kept, and nothing is put between the
\* two files.
C2_EndToEndBundleKeepsSpace ==
    ScenarioDone =>
        disk[Canon(destination_file_path)] =
          <<"b", "o", "d", "y", "{", "c", "o", "l", "o", "r", ":", "r", "e",
            "d", "}", " ", ".", "h", "1", "{", "m", "a", "r", "g", "i", "n",
            ":", "0", "}">>

\* the scenario has run over a destination that held a text before
C2_Witness ==
    /\ ScenarioDone
    /\ Canon(destination_file_path) \in DOMAIN disk0
    /\ disk0[Canon(destination_file_path)] # <<>>
    /\ Len(disk[Canon(destination_file_path)]) = 29

\* C4 as stated: a path the traversal produced is selected if and only if
\* its path string ends with the extension string.
C4_SelectedIffSuffix ==
    Filtered =>
        \A file \in Range(files_to_minify) :
            file \in Range(files_without_destination_file)
                <=> EndsWith(file, extension)

\* C4 as amended: a path the traversal produced is selected if and only if
\* its path string ends with the extension string and does not contain the
\* string "{folder}/{name}".
C4_SelectedIffSuffixAndNotDestination ==
    Filtered =>
        \A file \in Range(files_to_minify) :
            file \in Range(files_without_destination_file)
                <=> (EndsWith(file, extension)
                     /\ ~Contains(file, destination_file_path))

\* the filter has kept a file, dropped one for its suffix and dropped one
\* that ends with the extension but contains the destination path
C4_Witness ==
    /\ Filtered
    /\ files_without_destination_file # <<>>
    /\ \E file \in Range(files_to_minify) : ~EndsWith(file, extension)
    /\ \E file \in Range(files_to_minify) :
          /\ EndsWith(file, extension)
          /\ Contains(file, destination_file_path)
          /\ file \notin Range(files_without_destination_file)

\* C5: a run that aborts leaves the destination file as it was: neither
\* truncated nor created.
C5_AbortLeavesDestination == pc = "panicked" => disk = disk0

\* C6: every I/O failure is fatal: no run in which an I/O operation failed
\* completes as if it had succeeded.
C6_NoFailureCompletesNormally == pc = "done" => faults = {}

C8_DestinationHoldsBundle ==
    (pc = "done" /\ faults = {}) =>
        /\ disk[Canon(destination_file_path)] =
              Flatten([k \in 1..Len(files_without_destination_file) |->
                          Minify(ContentAtRead(files_without_destination_file[k]))])
        /\ files_without_destination_file =
              SelectSeq(files_to_minify,
                        LAMBDA file : file \in Range(files_without_destination_file))

\* a run without failure has bundled two files over a destination that
\* held a text before
C8_Witness ==
    /\ pc = "done"
    /\ faults = {}
    /\ Len(files_without_destination_file) = 2
    /\ Canon(destination_file_path) \in DOMAIN disk0
    /\ disk0[Canon(destination_file_path)] # <<>>
    /\ Canon(destination_file_path)
          \notin {Canon(file) : file \in Range(files_without_destination_file)}
    /\ disk[Canon(destination_file_path)] =
          <<"a", "{", "}", "p", ">", "q">>

====
